---- MODULE Spec2Model ----
(***************************************************************************)
(* Model of scan_api.py: the eSCL scan-job client (ESCLScanner), the       *)
(* Paperless uploader, perform_scan, the /scan and /autoscan handlers and  *)
(* the auto-scan supervisor thread (autoscan_worker.check_and_scan).       *)
(*                                                                         *)
(* Three specifications share the variables:                               *)
(*   Spec      - the running process: the supervisor thread interleaved    *)
(*               with /scan and /autoscan/status request threads, the      *)
(*               toggle endpoints and the clock;                           *)
(*   SpecFetch - get_scan_document alone, for every retry budget, retry    *)
(*               delay and sequence of scanner answers within the bounds;  *)
(*   SpecCalls - one call of an advisory function, of delete_scan_job or   *)
(*               of perform_scan's source selection, for every answer of   *)
(*               the scanner.                                              *)
(***************************************************************************)
EXTENDS Integers, Sequences, FiniteSets, TLC

\* ---------------------------------------------------------------- bounds
MaxRetries == 3      \* largest max_retries drawn in SpecFetch
MaxDelay == 2        \* largest retry_delay drawn in SpecFetch
NumDocs == 1         \* distinct document contents the scanner can deliver

\* ------------------------------------------------- HTTP responses (requests)
\* A response is its status code; 0 stands for a transport failure or a
\* timeout (requests.exceptions.RequestException that is not an HTTPError).
TransportFailure == 0
StatusOK == 200
StatusNotReady == 503
StatusNotFound == 404

Docs == 1..NumDocs
NoDocument == 0

\* Answers of the scanner to GET <job>/NextDocument.
NextDocumentResponses ==
    {[status |-> StatusOK, content |-> d] : d \in Docs}
    \cup {[status |-> s, content |-> NoDocument] :
              s \in {StatusNotReady, StatusNotFound, TransportFailure}}

\* response.raise_for_status(): raises HTTPError for 4xx and 5xx.
RaisesHTTPError(resp) == resp.status >= 400

\* --------------------------------------- ESCLScanner.get_scan_document
\* The value built while the loop runs: what the caller gets (outcome,
\* content, budget reported by the timeout message) and what the scanner and
\* the clock saw (the requests and sleeps in order, the seconds slept).
FetchStart ==
    [outcome |-> "running", content |-> NoDocument, budget |-> 0,
     requests |-> 0, sleeps |-> 0, slept |-> 0, events |-> << >>]

FetchPending == [FetchStart EXCEPT !.outcome = "pending"]

\* FetchAttempt with `attempt < max_retries` as the retry test: it sleeps
\* after the last 503 as well and never reports the timeout.
FetchAttemptSleepsAfterLast(script, max_retries, retry_delay, attempt, acc) ==
    IF acc.outcome # "running"
    THEN acc
    ELSE LET resp == script[attempt + 1]
             got == [acc EXCEPT !.requests = @ + 1,
                                !.events = Append(@, "request")]
         IN  IF resp.status = TransportFailure
             THEN [got EXCEPT !.outcome = "retrieval_error"]
             ELSE IF ~RaisesHTTPError(resp)
             THEN [got EXCEPT !.outcome = "content", !.content = resp.content]
             ELSE IF resp.status = StatusNotReady
             THEN IF attempt < max_retries
                  THEN [got EXCEPT !.sleeps = @ + 1,
                                   !.slept = @ + retry_delay,
                                   !.events = Append(@, "sleep")]
                  ELSE [got EXCEPT !.outcome = "timed_out",
                                   !.budget = max_retries * retry_delay]
             ELSE [got EXCEPT !.outcome = "retrieval_error"]

\* FetchAttempt that retries on every HTTP error status, not only on 503.
FetchAttemptRetriesAnyStatus(script, max_retries, retry_delay, attempt, acc) ==
    IF acc.outcome # "running"
    THEN acc
    ELSE LET resp == script[attempt + 1]
             got == [acc EXCEPT !.requests = @ + 1,
                                !.events = Append(@, "request")]
         IN  IF resp.status = TransportFailure
             THEN [got EXCEPT !.outcome = "retrieval_error"]
             ELSE IF ~RaisesHTTPError(resp)
             THEN [got EXCEPT !.outcome = "content", !.content = resp.content]
             ELSE IF attempt < max_retries - 1
                  THEN [got EXCEPT !.sleeps = @ + 1,
                                   !.slept = @ + retry_delay,
                                   !.events = Append(@, "sleep")]
                  ELSE [got EXCEPT !.outcome = "timed_out",
                                   !.budget = max_retries * retry_delay]

\* FetchAttempt that sleeps at the top of every pass, before its request.
FetchAttemptSleepsFirst(script, max_retries, retry_delay, attempt, acc) ==
    IF acc.outcome # "running"
    THEN acc
    ELSE LET resp == script[attempt + 1]
             got == [acc EXCEPT !.requests = @ + 1,
                                !.sleeps = @ + 1,
                                !.slept = @ + retry_delay,
                                !.events = @ \o <<"sleep", "request">>]
         IN  IF resp.status = TransportFailure
             THEN [got EXCEPT !.outcome = "retrieval_error"]
             ELSE IF ~RaisesHTTPError(resp)
             THEN [got EXCEPT !.outcome = "content", !.content = resp.content]
             ELSE IF resp.status = StatusNotReady
             THEN IF attempt < max_retries - 1
                  THEN got
                  ELSE [got EXCEPT !.outcome = "timed_out",
                                   !.budget = max_retries * retry_delay]
             ELSE [got EXCEPT !.outcome = "retrieval_error"]

\* One pass through the body of `for attempt in range(max_retries)`, from
\* the state `acc` the earlier passes left; a pass after a return or a raise
\* does not happen.
FetchAttempt(script, max_retries, retry_delay, attempt, acc) ==
    IF acc.outcome # "running"
    THEN acc
    ELSE LET resp == script[attempt + 1]
             got == [acc EXCEPT !.requests = @ + 1,
                                !.events = Append(@, "request")]
         IN  IF resp.status = TransportFailure
             THEN [got EXCEPT !.outcome = "retrieval_error"]
             ELSE IF ~RaisesHTTPError(resp)
             THEN [got EXCEPT !.outcome = "content", !.content = resp.content]
             ELSE IF resp.status = StatusNotReady
             THEN IF attempt < max_retries - 1
                  THEN [got EXCEPT !.sleeps = @ + 1,
                                   !.slept = @ + retry_delay,
                                   !.events = Append(@, "sleep")]
                  ELSE [got EXCEPT !.outcome = "timed_out",
                                   !.budget = max_retries * retry_delay]
             ELSE [got EXCEPT !.outcome = "retrieval_error"]

\* for attempt in range(max_retries): ... ; raise Exception("Failed to retrieve scan")
get_scan_document(script, max_retries, retry_delay) ==
    LET after[n \in 0..max_retries] ==
            IF n = 0 THEN FetchStart
            ELSE FetchAttempt(script, max_retries, retry_delay, n - 1,
                              after[n - 1])
        last == after[max_retries]
    IN  IF last.outcome = "running"
        THEN [last EXCEPT !.outcome = "failed_to_retrieve"]
        ELSE last

\* ------------------------------------------------------ program constants
DefaultMaxRetries == 30   \* get_scan_document(max_retries=30)
DefaultRetryDelay == 2    \* get_scan_document(retry_delay=2)
TickSeconds == 2          \* time.sleep(2) in check_and_scan
Debounce == 3             \* current_time - last_scan_time > 3

\* ---------------------------------------------------------------- bounds
NumHandlers == 1     \* /scan requests, each served by a thread of its own
MaxJobs == 2         \* job handles the scanner can have open at once
StartTime == 4       \* time.time() when the process starts
MaxTime == 4         \* seconds of wall clock explored after the start

Supervisor == 0
Handlers == 1..NumHandlers
Threads == {Supervisor} \cup Handlers

JobIds == 1..MaxJobs
NoJob == 0
Sources == {"Platen", "Adf"}
NoSource == "None"

\* ------------------------------------------------------------- variables
VARIABLES
    given_max_retries,  \* max_retries given to get_scan_document (SpecFetch)
    given_retry_delay,  \* retry_delay given to get_scan_document (SpecFetch)
    given_script,       \* the scanner's answers to its NextDocument requests
    fetched,            \* what get_scan_document did and gave back
    AUTO_SCAN_ENABLED,  \* the module global
    now,                \* wall clock, time.time()
    openJobs,           \* handles returned by create_scan_job for which
                        \* delete_scan_job has not been called
    pc,                 \* where each thread is
    run,                \* each thread's perform_scan activation
    last_scan_time,     \* check_and_scan local
    current_time,       \* check_and_scan local
    sleep_left,         \* seconds left of the supervisor's time.sleep(2)
    last_detection,     \* history: did the supervisor's latest ADF-loaded
                        \* detection (at current_time) call perform_scan
    response,           \* the HTTP answer each request thread gave
    invoked,            \* one call of a single function and what the
                        \* device answers to its request (SpecCalls)
    gave                \* what that call gave back

fetchVars == <<given_max_retries, given_retry_delay, given_script, fetched>>
callVars == <<invoked, gave>>
sysVars == <<AUTO_SCAN_ENABLED, now, openJobs, pc, run, last_scan_time,
             current_time, sleep_left, last_detection, response>>
vars == <<given_max_retries, given_retry_delay, given_script, fetched, AUTO_SCAN_ENABLED, now,
          openJobs, pc, run, last_scan_time, current_time, sleep_left,
          last_detection, response, invoked, gave>>

\* --------------------------------------------- ESCLScanner advisory calls
StatusTokens == {"AdfLoaded", "MediaLoaded"}
CapabilityTokens == {"Adf", "ADF"}

\* An answer to GET /eSCL/ScannerStatus: the tokens its text contains.
ScannerStatusResponses ==
    {[status |-> s, text |-> t] :
        s \in {StatusOK, StatusNotReady, TransportFailure},
        t \in SUBSET StatusTokens}

\* An answer to GET /eSCL/ScannerCapabilities.
CapabilitiesResponses ==
    {[status |-> s, text |-> t] :
        s \in {StatusOK, StatusNotFound, TransportFailure},
        t \in SUBSET CapabilityTokens}

\* A request failed: requests raised (no answer within the timeout, no
\* connection) or raise_for_status() raised on a 4xx/5xx answer.
RequestFailed(resp) == resp.status = TransportFailure \/ RaisesHTTPError(resp)

\* get_scanner_status without its try/except: the exception of the
\* request reaches the caller.
get_scanner_status_uncaught(resp) ==
    IF RequestFailed(resp)
    THEN [raised |-> TRUE, none |-> FALSE, text |-> {}]
    ELSE [raised |-> FALSE, none |-> FALSE, text |-> resp.text]

\* get_scanner_status: response.text, or None on any exception.
get_scanner_status(resp) ==
    IF RequestFailed(resp)
    THEN [raised |-> FALSE, none |-> TRUE, text |-> {}]
    ELSE [raised |-> FALSE, none |-> FALSE, text |-> resp.text]

\* get_scanner_capabilities that looks for "Adf" only.
get_scanner_capabilities_one_token(resp) ==
    IF RequestFailed(resp)
    THEN [raised |-> FALSE, has_adf |-> FALSE]
    ELSE [raised |-> FALSE, has_adf |-> "Adf" \in resp.text]

\* get_scanner_capabilities: "Adf" in text or "ADF" in text; False on any
\* exception.
get_scanner_capabilities(resp) ==
    IF RequestFailed(resp)
    THEN [raised |-> FALSE, has_adf |-> FALSE]
    ELSE [raised |-> FALSE,
          has_adf |-> "Adf" \in resp.text \/ "ADF" \in resp.text]

\* What get_scanner_capabilities can give its caller.
CapabilitiesResults ==
    {get_scanner_capabilities(resp) : resp \in CapabilitiesResponses}

\* check_adf_loaded: "AdfLoaded" in status or "MediaLoaded" in status;
\* False when the status is None (or empty), False on any exception.
check_adf_loaded(resp) ==
    LET status == get_scanner_status(resp)
    IN  IF status.raised THEN [raised |-> FALSE, loaded |-> FALSE]
        ELSE IF ~status.none
        THEN [raised |-> FALSE,
              loaded |-> "AdfLoaded" \in status.text
                         \/ "MediaLoaded" \in status.text]
        ELSE [raised |-> FALSE, loaded |-> FALSE]

\* What check_adf_loaded can give its caller.
AdfLoadedResults == {check_adf_loaded(resp) : resp \in ScannerStatusResponses}

\* ------------------------------------------- ESCLScanner.create_scan_job
StatusCreated == 201

\* The handle the scanner gives to a new job: handles are opaque URLs, so
\* the first unused one stands for any of them.
NewJob(free) == CHOOSE j \in free : \A k \in free : j <= k

\* An answer to POST /eSCL/ScanJobs; location NoJob = no Location header.
\* The scanner accepts a job only while it has a handle to give.
CreateResponses(free) ==
    {[status |-> s, location |-> NoJob] :
        s \in {StatusCreated, StatusNotReady, TransportFailure}}
    \cup (IF free = {} THEN {}
          ELSE {[status |-> StatusCreated, location |-> NewJob(free)]})

\* create_scan_job without the `if job_location:` test: a response without
\* a Location header is returned as a handle instead of raising.
create_scan_job_unchecked(resp) ==
    IF resp.status = TransportFailure \/ RaisesHTTPError(resp)
    THEN [raised |-> TRUE, error |-> "Error creating scan job",
          job_location |-> NoJob]
    ELSE [raised |-> FALSE, error |-> "", job_location |-> resp.location]

\* Returns the Location header, raises ValueError when it is missing and
\* Exception("Error creating scan job") when the request fails.
create_scan_job(resp) ==
    IF resp.status = TransportFailure \/ RaisesHTTPError(resp)
    THEN [raised |-> TRUE, error |-> "Error creating scan job",
          job_location |-> NoJob]
    ELSE IF resp.location # NoJob
    THEN [raised |-> FALSE, error |-> "", job_location |-> resp.location]
    ELSE [raised |-> TRUE, error |-> "No job location returned",
          job_location |-> NoJob]

\* ------------------------------------------- ESCLScanner.delete_scan_job
DeleteResponses == {StatusOK, StatusNotFound, TransportFailure}

\* delete_scan_job without its try/except: a failed DELETE raises.
delete_scan_job_uncaught(status) ==
    [raised |-> status = TransportFailure \/ status >= 400]

\* try: requests.delete(...) except: pass -- never raises, returns None.
delete_scan_job(status) == [raised |-> FALSE]

\* What delete_scan_job can give its caller.
DeleteResults == {delete_scan_job(resp) : resp \in DeleteResponses}

\* --------------------------------------- PaperlessUploader.upload_document
StatusBadRequest == 400
UploadResponses == {StatusOK, StatusBadRequest, TransportFailure}

\* upload_document that swallows a failed upload and reports success.
upload_document_absorbing(status) == [raised |-> FALSE, error |-> ""]

\* Returns True; raises Exception("Error uploading to Paperless-ngx") when
\* the request fails or the archive answers with an error status.
upload_document(status) ==
    IF status = TransportFailure \/ status >= 400
    THEN [raised |-> TRUE, error |-> "Error uploading to Paperless-ngx"]
    ELSE [raised |-> FALSE, error |-> ""]

\* ------------------------------------------------------------ /scan route
\* No answer yet. An answer is the HTTP status with the fields of its JSON
\* body; a field the body does not have keeps its value here.
NoResponse == [status |-> 0, success |-> FALSE, error |-> "",
               source |-> NoSource, enabled |-> FALSE]

\* scan() that answers 200 with the caught error in the body.
scan_error_as_ok(r) ==
    IF r.outcome = "returned"
    THEN [NoResponse EXCEPT !.status = 200, !.success = TRUE,
                            !.source = r.result_source]
    ELSE [NoResponse EXCEPT !.status = 200, !.error = r.error]

\* scan(): return jsonify(result), 200 when perform_scan returned,
\* except Exception as e: return jsonify({success: False, error: str(e)}), 500
scan(r) ==
    IF r.outcome = "returned"
    THEN [NoResponse EXCEPT !.status = 200, !.success = TRUE,
                            !.source = r.result_source]
    ELSE [NoResponse EXCEPT !.status = 500, !.error = r.error]

\* ----------------------------------------------------------- perform_scan
\* One activation of perform_scan: its locals, the calls it has made to the
\* scanner's job interface and to the archive so far (ops, in order), the
\* status the archive answered the upload with, and how it ended.
NoStatus == -1

RunIdle ==
    [source |-> NoSource, input_source |-> NoSource, job_location |-> NoJob,
     document_data |-> NoDocument, ops |-> << >>, outcome |-> "none",
     error |-> "", result_source |-> NoSource, upload_status |-> NoStatus]

\* Entry of perform_scan(source=...): the capabilities query happens only
\* when source is None.
EnterPerformScan(source) ==
    [RunIdle EXCEPT !.source = source, !.outcome = "running"]

FirstStage(source) == IF source = NoSource THEN "capabilities" ELSE "create"

Raise(r, op, error) ==
    [r EXCEPT !.ops = Append(@, op), !.outcome = "raised", !.error = error]

\* perform_scan of thread t is over with activation r (returned or raised).
\* A /scan handler answers its request at once (nothing but the try/except
\* of scan() lies between); the supervisor goes on in SupAfterScan.
Exit(t, r) ==
    /\ run' = [run EXCEPT ![t] = r]
    /\ pc' = [pc EXCEPT ![t] = "exit"]
    /\ response' = IF t \in Handlers
                   THEN [response EXCEPT ![t] = scan(r)]
                   ELSE response

\* source = "Adf" if has_adf else "Platen"
DetectedSource(c) == IF c.has_adf THEN "Adf" ELSE "Platen"

\* The source perform_scan(source=...) puts into its scan settings when
\* the scanner answers a capabilities query with resp, and whether it
\* sends that query.
scan_source(source, resp) ==
    IF FirstStage(source) = "capabilities"
    THEN LET c == get_scanner_capabilities(resp)
         IN  [raised |-> c.raised, queried |-> TRUE,
              input_source |-> IF c.raised THEN NoSource ELSE DetectedSource(c)]
    ELSE [raised |-> FALSE, queried |-> FALSE, input_source |-> source]

\* if source is None: has_adf = scanner.get_scanner_capabilities(); ...
Capabilities(t) ==
    /\ pc[t] = "capabilities"
    /\ \E c \in CapabilitiesResults :
         IF c.raised
         THEN Exit(t, Raise(run[t], "get_scanner_capabilities",
                            "get_scanner_capabilities"))
         ELSE /\ run' = [run EXCEPT ![t].source = DetectedSource(c)]
              /\ pc' = [pc EXCEPT ![t] = "create"]
              /\ UNCHANGED response
    /\ UNCHANGED <<fetchVars, callVars, AUTO_SCAN_ENABLED, now, openJobs, last_scan_time,
                   current_time, sleep_left, last_detection>>

\* job_location = scanner.create_scan_job(scan_settings), with
\* scan_settings["input_source"] = source.
Create(t) ==
    /\ pc[t] = "create"
    /\ \E resp \in CreateResponses(JobIds \ openJobs) :
         LET c == create_scan_job(resp)
             sent == [run[t] EXCEPT !.input_source = run[t].source]
         IN  IF c.raised
             THEN /\ Exit(t, Raise(sent, "create_scan_job", c.error))
                  /\ UNCHANGED openJobs
             ELSE /\ run' = [run EXCEPT ![t] =
                                [sent EXCEPT !.ops = Append(@, "create_scan_job"),
                                             !.job_location = c.job_location]]
                  /\ pc' = [pc EXCEPT ![t] = "fetch"]
                  /\ openJobs' = openJobs \cup {c.job_location}
                  /\ UNCHANGED response
    /\ UNCHANGED <<fetchVars, callVars, AUTO_SCAN_ENABLED, now, last_scan_time,
                   current_time, sleep_left, last_detection>>

\* The pages lying in the scanner while the process runs: what a 200 answer
\* to NextDocument carries. perform_scan never looks into the bytes.
ScannedDocument == 1

\* The answer sequences the scanner can give to one polling loop: k times
\* 503, then the answer `final` (to every later request).
PollScripts(n) ==
    {[i \in 1..n |-> IF i <= k THEN [status |-> StatusNotReady,
                                     content |-> NoDocument]
                     ELSE final] :
        k \in 0..n,
        final \in {r \in NextDocumentResponses :
                      r.content \in {NoDocument, ScannedDocument}}}

\* What get_scan_document(job_location) with its default budget does, over
\* all those answer sequences.
DefaultFetchRuns ==
    {get_scan_document(s, DefaultMaxRetries, DefaultRetryDelay) :
        s \in PollScripts(DefaultMaxRetries)}

\* What it gives the caller.
DefaultFetches ==
    {[outcome |-> f.outcome, content |-> f.content] : f \in DefaultFetchRuns}

\* perform_scan that starts the polling loop once more when it timed out.
FetchAgainAfterTimeout(t) ==
    /\ pc[t] = "fetch"
    /\ \E f \in DefaultFetches :
         IF f.outcome = "content"
         THEN /\ run' = [run EXCEPT ![t].ops = Append(@, "get_scan_document"),
                                    ![t].document_data = f.content]
              /\ pc' = [pc EXCEPT ![t] = "delete"]
              /\ UNCHANGED response
         ELSE IF f.outcome = "timed_out" /\ Len(run[t].ops) < 2
         THEN /\ run' = [run EXCEPT ![t].ops = Append(@, "get_scan_document")]
              /\ UNCHANGED <<pc, response>>
         ELSE Exit(t, Raise(run[t], "get_scan_document", f.outcome))
    /\ UNCHANGED <<fetchVars, callVars, AUTO_SCAN_ENABLED, now, openJobs, last_scan_time,
                   current_time, sleep_left, last_detection>>

\* document_data = scanner.get_scan_document(job_location); an exception
\* of get_scan_document leaves perform_scan (line 199 is not reached).
Fetch(t) ==
    /\ pc[t] = "fetch"
    /\ \E f \in DefaultFetches :
         IF f.outcome = "content"
         THEN /\ run' = [run EXCEPT ![t].ops = Append(@, "get_scan_document"),
                                    ![t].document_data = f.content]
              /\ pc' = [pc EXCEPT ![t] = "delete"]
              /\ UNCHANGED response
         ELSE Exit(t, Raise(run[t], "get_scan_document", f.outcome))
    /\ UNCHANGED <<fetchVars, callVars, AUTO_SCAN_ENABLED, now, openJobs, last_scan_time,
                   current_time, sleep_left, last_detection>>

\* perform_scan without line 199: the job is never cleaned up.
DeleteForgotten(t) ==
    /\ pc[t] = "delete"
    /\ pc' = [pc EXCEPT ![t] = "upload"]
    /\ UNCHANGED <<fetchVars, callVars, AUTO_SCAN_ENABLED, now, openJobs, run,
                   last_scan_time, current_time, sleep_left, last_detection,
                   response>>

\* scanner.delete_scan_job(job_location)
Delete(t) ==
    /\ pc[t] = "delete"
    /\ \E d \in DeleteResults :
         IF d.raised
         THEN Exit(t, Raise(run[t], "delete_scan_job", "delete_scan_job"))
         ELSE /\ run' = [run EXCEPT ![t].ops = Append(@, "delete_scan_job")]
              /\ pc' = [pc EXCEPT ![t] = "upload"]
              /\ UNCHANGED response
    /\ openJobs' = openJobs \ {run[t].job_location}
    /\ UNCHANGED <<fetchVars, callVars, AUTO_SCAN_ENABLED, now, last_scan_time,
                   current_time, sleep_left, last_detection>>

\* perform_scan that gives up before the upload when auto-scan has been
\* disabled in the meantime.
UploadUnlessDisabled(t) ==
    /\ pc[t] = "upload"
    /\ \E resp \in UploadResponses :
         LET u == upload_document(resp)
             r == [run[t] EXCEPT !.upload_status = resp]
         IN  IF t = Supervisor /\ ~AUTO_SCAN_ENABLED
             THEN Exit(t, Raise(run[t], "upload_document", "auto-scan disabled"))
             ELSE IF u.raised
             THEN Exit(t, Raise(r, "upload_document", u.error))
             ELSE Exit(t, [r EXCEPT !.ops = Append(@, "upload_document"),
                                    !.outcome = "returned",
                                    !.result_source = r.source])
    /\ UNCHANGED <<fetchVars, callVars, AUTO_SCAN_ENABLED, now, openJobs, last_scan_time,
                   current_time, sleep_left, last_detection>>

\* uploader.upload_document(document_data, filename, title=title)
\* return {"success": True, ..., "source": source}
Upload(t) ==
    /\ pc[t] = "upload"
    /\ \E resp \in UploadResponses :
         LET u == upload_document(resp)
             r == [run[t] EXCEPT !.upload_status = resp]
         IN  IF u.raised
             THEN Exit(t, Raise(r, "upload_document", u.error))
             ELSE Exit(t, [r EXCEPT !.ops = Append(@, "upload_document"),
                                    !.outcome = "returned",
                                    !.result_source = r.source])
    /\ UNCHANGED <<fetchVars, callVars, AUTO_SCAN_ENABLED, now, openJobs, last_scan_time,
                   current_time, sleep_left, last_detection>>

\* A /scan request arrives: scan() reads the parameters and calls
\* perform_scan inside its try. Each request has a thread of its own; the
\* threads are numbered in the order in which the requests arrive.
ScanRequest(h) ==
    /\ pc[h] = "idle"
    /\ \A g \in Handlers : g < h => pc[g] # "idle"
    /\ \E source \in Sources \cup {NoSource} :
         /\ run' = [run EXCEPT ![h] = EnterPerformScan(source)]
         /\ pc' = [pc EXCEPT ![h] = FirstStage(source)]
    /\ UNCHANGED <<fetchVars, callVars, AUTO_SCAN_ENABLED, now, openJobs, last_scan_time,
                   current_time, sleep_left, last_detection, response>>

\* ------------------------------------------------------- /autoscan routes
enable_autoscan ==
    /\ AUTO_SCAN_ENABLED' = TRUE
    /\ UNCHANGED <<fetchVars, callVars, now, openJobs, pc, run, last_scan_time,
                   current_time, sleep_left, last_detection, response>>

disable_autoscan ==
    /\ AUTO_SCAN_ENABLED' = FALSE
    /\ UNCHANGED <<fetchVars, callVars, now, openJobs, pc, run, last_scan_time,
                   current_time, sleep_left, last_detection, response>>

\* autoscan_status that answers with the value the flag had at startup.
autoscan_status_initial(h) ==
    /\ pc[h] = "idle"
    /\ \A g \in Handlers : g < h => pc[g] # "idle"
    /\ response' = [response EXCEPT ![h] =
                       [NoResponse EXCEPT !.status = 200, !.enabled = FALSE]]
    /\ pc' = [pc EXCEPT ![h] = "answered"]
    /\ UNCHANGED <<fetchVars, callVars, AUTO_SCAN_ENABLED, now, openJobs, run,
                   last_scan_time, current_time, sleep_left, last_detection>>

\* A /autoscan/status request arrives (in a request thread of its own,
\* like a /scan request) and is answered at once:
\* return jsonify({"enabled": AUTO_SCAN_ENABLED})
autoscan_status(h) ==
    /\ pc[h] = "idle"
    /\ \A g \in Handlers : g < h => pc[g] # "idle"
    /\ response' = [response EXCEPT ![h] =
                       [NoResponse EXCEPT !.status = 200,
                                          !.enabled = AUTO_SCAN_ENABLED]]
    /\ pc' = [pc EXCEPT ![h] = "answered"]
    /\ UNCHANGED <<fetchVars, callVars, AUTO_SCAN_ENABLED, now, openJobs, run,
                   last_scan_time, current_time, sleep_left, last_detection>>

\* ------------------------------------------ autoscan_worker.check_and_scan
\* check_and_scan without the try/except: an exception of perform_scan
\* ends the thread.
AfterAutoScanUncaught(outcome) == IF outcome = "raised" THEN "dead" ELSE "sleep"

\* Where the supervisor thread goes when its perform_scan call is over:
\* a result is logged, an exception is caught by `except Exception` and
\* logged; both continue with the next iteration of `while True`.
AfterAutoScan(outcome) == "sleep"

\* check_and_scan without `if AUTO_SCAN_ENABLED:`: every tick polls.
SupWakeUnconditional ==
    /\ pc[Supervisor] = "sleep"
    /\ sleep_left = 0
    /\ pc' = [pc EXCEPT ![Supervisor] = "poll"]
    /\ UNCHANGED <<fetchVars, callVars, AUTO_SCAN_ENABLED, now, openJobs, run,
                   last_scan_time, current_time, last_detection, response,
                   sleep_left>>

\* time.sleep(2) is over; `if AUTO_SCAN_ENABLED:` is read.
SupWake ==
    /\ pc[Supervisor] = "sleep"
    /\ sleep_left = 0
    /\ IF AUTO_SCAN_ENABLED
       THEN /\ pc' = [pc EXCEPT ![Supervisor] = "poll"]
            /\ UNCHANGED sleep_left
       ELSE /\ sleep_left' = TickSeconds
            /\ UNCHANGED pc
    /\ UNCHANGED <<fetchVars, callVars, AUTO_SCAN_ENABLED, now, openJobs, run,
                   last_scan_time, current_time, last_detection, response>>

\* if scanner.check_adf_loaded(): current_time = time.time();
\*     if current_time - last_scan_time > 3: perform_scan(source="Adf")
\* An exception of check_adf_loaded would be caught by `except Exception`
\* and logged, and the loop would go on.
SupPoll ==
    /\ pc[Supervisor] = "poll"
    /\ \E a \in AdfLoadedResults :
         IF ~a.raised /\ a.loaded
         THEN /\ current_time' = now
              /\ IF now - last_scan_time > Debounce
                 THEN /\ run' = [run EXCEPT ![Supervisor] = EnterPerformScan("Adf")]
                      /\ pc' = [pc EXCEPT ![Supervisor] = FirstStage("Adf")]
                      /\ last_detection' = TRUE
                      /\ UNCHANGED sleep_left
                 ELSE /\ pc' = [pc EXCEPT ![Supervisor] = "sleep"]
                      /\ sleep_left' = TickSeconds
                      /\ last_detection' = FALSE
                      /\ UNCHANGED run
         ELSE /\ pc' = [pc EXCEPT ![Supervisor] = "sleep"]
              /\ sleep_left' = TickSeconds
              /\ UNCHANGED <<run, current_time, last_detection>>
    /\ UNCHANGED <<fetchVars, callVars, AUTO_SCAN_ENABLED, now, openJobs, last_scan_time,
                   response>>

\* check_and_scan that sets last_scan_time in a `finally`: after a result
\* and after an exception alike.
SupAfterScanAlwaysStamps ==
    /\ pc[Supervisor] = "exit"
    /\ last_scan_time' = current_time
    /\ pc' = [pc EXCEPT ![Supervisor] = AfterAutoScan(run[Supervisor].outcome)]
    /\ run' = [run EXCEPT ![Supervisor] = RunIdle]
    /\ sleep_left' = TickSeconds
    /\ UNCHANGED <<fetchVars, callVars, AUTO_SCAN_ENABLED, now, openJobs, current_time,
                   last_detection, response>>

\* perform_scan is over: last_scan_time = current_time after a result,
\* app.logger.error after an exception.
SupAfterScan ==
    /\ pc[Supervisor] = "exit"
    /\ last_scan_time' = IF run[Supervisor].outcome = "returned"
                         THEN current_time ELSE last_scan_time
    /\ pc' = [pc EXCEPT ![Supervisor] = AfterAutoScan(run[Supervisor].outcome)]
    /\ run' = [run EXCEPT ![Supervisor] = RunIdle]
    /\ sleep_left' = TickSeconds
    /\ UNCHANGED <<fetchVars, callVars, AUTO_SCAN_ENABLED, now, openJobs, current_time,
                   last_detection, response>>

\* The wall clock advances by a second; a time.sleep in progress has a
\* second less to go.
Tick ==
    /\ now < StartTime + MaxTime
    /\ now' = now + 1
    /\ sleep_left' = IF sleep_left > 0 THEN sleep_left - 1 ELSE 0
    /\ UNCHANGED <<fetchVars, callVars, AUTO_SCAN_ENABLED, openJobs, pc, run,
                   last_scan_time, current_time, last_detection, response>>

\* ------------------------------------------------- one call on its own
\* The calls that are total functions of the device's answer, each taken
\* alone: fn is the function, source the argument of perform_scan, resp
\* the answer to the one request the function sends.
NoCall == [fn |-> "none", source |-> NoSource,
           resp |-> [status |-> TransportFailure, text |-> {}]]
NotCalled == [done |-> FALSE, raised |-> FALSE, none |-> FALSE, text |-> {},
              value |-> FALSE, queried |-> FALSE, input_source |-> NoSource]

\* A source string that is neither "Platen" nor "Adf".
OtherSource == "Feeder"

Calls ==
    {[fn |-> f, source |-> NoSource, resp |-> r] :
        f \in {"get_scanner_status", "check_adf_loaded"},
        r \in ScannerStatusResponses}
    \cup {[fn |-> "get_scanner_capabilities", source |-> NoSource, resp |-> r] :
            r \in CapabilitiesResponses}
    \cup {[fn |-> "delete_scan_job", source |-> NoSource,
           resp |-> [status |-> s, text |-> {}]] : s \in DeleteResponses}
    \cup {[fn |-> "perform_scan", source |-> src, resp |-> r] :
            src \in Sources \cup {OtherSource, NoSource},
            r \in CapabilitiesResponses}

\* What the call c gives back.
Apply(c) ==
    IF c.fn = "get_scanner_status"
    THEN LET s == get_scanner_status(c.resp)
         IN  [NotCalled EXCEPT !.done = TRUE, !.raised = s.raised,
                               !.none = s.none, !.text = s.text]
    ELSE IF c.fn = "check_adf_loaded"
    THEN LET a == check_adf_loaded(c.resp)
         IN  [NotCalled EXCEPT !.done = TRUE, !.raised = a.raised,
                               !.value = a.loaded]
    ELSE IF c.fn = "get_scanner_capabilities"
    THEN LET k == get_scanner_capabilities(c.resp)
         IN  [NotCalled EXCEPT !.done = TRUE, !.raised = k.raised,
                               !.value = k.has_adf]
    ELSE IF c.fn = "delete_scan_job"
    THEN LET d == delete_scan_job(c.resp.status)
         IN  [NotCalled EXCEPT !.done = TRUE, !.raised = d.raised, !.none = TRUE]
    ELSE LET p == scan_source(c.source, c.resp)
         IN  [NotCalled EXCEPT !.done = TRUE, !.raised = p.raised,
                               !.queried = p.queried,
                               !.input_source = p.input_source]

\* ------------------------------------------------------- specifications
\* The process after startup: AUTO_SCAN_ENABLED = False, the supervisor
\* thread is in its first time.sleep(2), no request is being served.
Init ==
    /\ given_max_retries = DefaultMaxRetries
    /\ given_retry_delay = DefaultRetryDelay
    /\ given_script = << >>
    /\ fetched = FetchPending
    /\ AUTO_SCAN_ENABLED = FALSE
    /\ now = StartTime
    /\ openJobs = {}
    /\ pc = [t \in Threads |-> IF t = Supervisor THEN "sleep" ELSE "idle"]
    /\ run = [t \in Threads |-> RunIdle]
    /\ last_scan_time = 0
    /\ current_time = 0
    /\ sleep_left = TickSeconds
    /\ last_detection = FALSE
    /\ response = [h \in Handlers |-> NoResponse]
    /\ invoked = NoCall
    /\ gave = NotCalled

Next ==
    \/ \E t \in Threads : Capabilities(t)
    \/ \E t \in Threads : Create(t)
    \/ \E t \in Threads : Fetch(t)
    \/ \E t \in Threads : Delete(t)
    \/ \E t \in Threads : Upload(t)
    \/ \E h \in Handlers : ScanRequest(h)
    \/ \E h \in Handlers : autoscan_status(h)
    \/ enable_autoscan
    \/ disable_autoscan
    \/ SupWake
    \/ SupPoll
    \/ SupAfterScan
    \/ Tick

Spec == Init /\ [][Next]_vars

\* get_scan_document alone, for every budget, delay and answer sequence.
Scripts(n) == [1..n -> NextDocumentResponses]

InitFetch ==
    /\ given_max_retries \in 0..MaxRetries
    /\ given_retry_delay \in 0..MaxDelay
    /\ given_script \in Scripts(given_max_retries)
    /\ fetched = FetchPending
    /\ AUTO_SCAN_ENABLED = FALSE
    /\ now = StartTime
    /\ openJobs = {}
    /\ pc = [t \in Threads |-> IF t = Supervisor THEN "sleep" ELSE "idle"]
    /\ run = [t \in Threads |-> RunIdle]
    /\ last_scan_time = 0
    /\ current_time = 0
    /\ sleep_left = TickSeconds
    /\ last_detection = FALSE
    /\ response = [h \in Handlers |-> NoResponse]
    /\ invoked = NoCall
    /\ gave = NotCalled

\* One call of get_scan_document(job_location, given_max_retries, given_retry_delay).
FetchCall ==
    /\ fetched.outcome = "pending"
    /\ fetched' = get_scan_document(given_script, given_max_retries, given_retry_delay)
    /\ UNCHANGED <<given_max_retries, given_retry_delay, given_script, sysVars,
                   callVars>>

NextFetch == FetchCall

SpecFetch == InitFetch /\ [][NextFetch]_vars

\* One call of one of the functions in Calls, for every answer of the device.
InitCalls ==
    /\ invoked \in Calls
    /\ gave = NotCalled
    /\ given_max_retries = DefaultMaxRetries
    /\ given_retry_delay = DefaultRetryDelay
    /\ given_script = << >>
    /\ fetched = FetchPending
    /\ AUTO_SCAN_ENABLED = FALSE
    /\ now = StartTime
    /\ openJobs = {}
    /\ pc = [t \in Threads |-> IF t = Supervisor THEN "sleep" ELSE "idle"]
    /\ run = [t \in Threads |-> RunIdle]
    /\ last_scan_time = 0
    /\ current_time = 0
    /\ sleep_left = TickSeconds
    /\ last_detection = FALSE
    /\ response = [h \in Handlers |-> NoResponse]

Call ==
    /\ ~gave.done
    /\ gave' = Apply(invoked)
    /\ UNCHANGED <<fetchVars, sysVars, invoked>>

NextCalls == Call

SpecCalls == InitCalls /\ [][NextCalls]_vars

\* =============================================== get_scan_document (SpecFetch)
FetchDone == fetched.outcome # "pending"

\* The first k answers of the given sequence are all 503.
NotReadyUpTo(k) == \A i \in 1..k : given_script[i].status = StatusNotReady

\* request, sleep, request, ..., request: n requests with a sleep between
\* every two consecutive ones and nowhere else.
Alternating(n) ==
    [i \in 1..(2 * n - 1) |-> IF i % 2 = 1 THEN "request" ELSE "sleep"]

\* C3: when the scanner answers every NextDocument request with 503 and
\* max_retries = N >= 1, get_scan_document makes exactly N requests, sleeps
\* exactly N-1 times ((N-1)*B seconds, none after the last request) and
\* fails with the timeout error that reports the budget N*B.
C3_AlwaysNotReadyTimesOut ==
    (FetchDone /\ given_max_retries >= 1 /\ NotReadyUpTo(given_max_retries))
    => /\ fetched.outcome = "timed_out"
       /\ fetched.requests = given_max_retries
       /\ fetched.sleeps = given_max_retries - 1
       /\ fetched.slept = (given_max_retries - 1) * given_retry_delay
       /\ fetched.events = Alternating(given_max_retries)
       /\ fetched.budget = given_max_retries * given_retry_delay

C3_Witness ==
    /\ given_max_retries >= 2
    /\ given_retry_delay >= 1
    /\ NotReadyUpTo(given_max_retries)
    /\ fetched.outcome = "timed_out"
    /\ fetched.sleeps = given_max_retries - 1

\* The k-th answer is the first that is not a 503, and it is a non-503 HTTP
\* error status or a transport failure.
FirstFatalAt(k) ==
    /\ k \in 1..given_max_retries
    /\ NotReadyUpTo(k - 1)
    /\ \/ given_script[k].status = TransportFailure
       \/ /\ RaisesHTTPError(given_script[k])
          /\ given_script[k].status # StatusNotReady

\* C4: the first answer that is a non-503 HTTP error or a transport failure
\* ends get_scan_document at once with a retrieval error: it was the last
\* request, no sleep follows it, however many 503s came before and however
\* much of the budget is left.
C4_FatalAnswerEndsFetch ==
    \A k \in 1..given_max_retries :
        (FetchDone /\ FirstFatalAt(k))
        => /\ fetched.outcome = "retrieval_error"
           /\ fetched.requests = k
           /\ fetched.sleeps = k - 1
           /\ fetched.events = Alternating(k)
           /\ fetched.content = NoDocument

C4_Witness ==
    /\ given_max_retries >= 3
    /\ FirstFatalAt(2)
    /\ given_script[2].status = StatusNotFound
    /\ fetched.outcome = "retrieval_error"
    /\ fetched.requests = 2

\* C10: when the first k answers are 503 and the (k+1)-th is 200, with
\* 0 <= k < max_retries, get_scan_document makes exactly k+1 requests,
\* sleeps exactly k times, each sleep between two consecutive requests, and
\* returns the content of the 200 answer.
C10_ReadyAfterKNotReady ==
    \A k \in 0..(given_max_retries - 1) :
        (FetchDone /\ NotReadyUpTo(k) /\ given_script[k + 1].status = StatusOK)
        => /\ fetched.outcome = "content"
           /\ fetched.content = given_script[k + 1].content
           /\ fetched.requests = k + 1
           /\ fetched.sleeps = k
           /\ fetched.slept = k * given_retry_delay
           /\ fetched.events = Alternating(k + 1)

C10_Witness ==
    /\ given_max_retries >= 3
    /\ NotReadyUpTo(2)
    /\ given_script[3].status = StatusOK
    /\ fetched.outcome = "content"
    /\ fetched.events = <<"request", "sleep", "request", "sleep", "request">>

\* ==================================================== the process (Spec)
Called(r, op) == \E i \in 1..Len(r.ops) : r.ops[i] = op
TimesCalled(r, op) == Cardinality({i \in 1..Len(r.ops) : r.ops[i] = op})

\* perform_scan of thread t is over (returned or raised).
Exited(t) == pc[t] = "exit"

\* C1: whenever create_scan_job gave perform_scan a job handle,
\* delete_scan_job has been called for it by the time perform_scan exits,
\* also when get_scan_document raised.
C1_CreatedJobIsDeleted ==
    \A t \in Threads :
        (Exited(t) /\ run[t].job_location \in JobIds)
        => Called(run[t], "delete_scan_job")

\* C2: at most one scan job is open against the scanner at any time, for
\* every interleaving of the supervisor thread with /scan handlers.
C2_AtMostOneOpenJob == Cardinality(openJobs) <= 1

\* C5: of two consecutive ADF-loaded detections of the supervisor at
\* t1 < t2, the first of which called perform_scan, the second calls
\* perform_scan if and only if t2 - t1 > 3, whatever the first scan's outcome.
C5_DebounceBetweenTriggers ==
    [][(last_detection /\ current_time' # current_time)
       => (last_detection' <=> current_time' - current_time > Debounce)]_vars

\* C6: a perform_scan that raises inside the supervisor does not stop the
\* loop: the thread goes on to its next time.sleep(2) with the debounce
\* timestamp as it was, and a poll that finds the ADF loaded with the
\* debounce window elapsed calls perform_scan (again).
C6_SupervisorSurvivesFailedScan ==
    [][/\ (/\ Exited(Supervisor)
           /\ run[Supervisor].outcome = "raised"
           /\ pc'[Supervisor] # pc[Supervisor])
          => /\ pc'[Supervisor] = "sleep"
             /\ sleep_left' = TickSeconds
             /\ last_scan_time' = last_scan_time
       /\ (/\ pc[Supervisor] = "poll"
           /\ current_time' # current_time
           /\ now - last_scan_time > Debounce)
          => /\ pc'[Supervisor] = "create"
             /\ run'[Supervisor].outcome = "running"
       /\ pc'[Supervisor] \in {"sleep", "poll", "create", "fetch", "delete",
                               "upload", "exit"}]_vars

\* The supervisor calls perform_scan again after an auto-scan of its own
\* raised in get_scan_document (the job that scan left behind is still open
\* and no /scan request has been made).
C6_Witness ==
    /\ pc[Supervisor] = "create"
    /\ run[Supervisor].outcome = "running"
    /\ openJobs # {}
    /\ last_scan_time = 0
    /\ \A h \in Handlers : pc[h] = "idle"

\* C7: when job creation gives no handle (no Location header, or the request
\* fails) perform_scan raises: it has called neither get_scan_document nor
\* upload_document and has no result.
C7_NoHandleNoFetchNoUpload ==
    \A t \in Threads :
        (pc[t] \in {"fetch", "delete", "upload", "exit"}
         /\ run[t].job_location \notin JobIds)
        => /\ Exited(t)
           /\ run[t].outcome = "raised"
           /\ run[t].ops = <<"create_scan_job">>
           /\ run[t].document_data = NoDocument
           /\ run[t].upload_status = NoStatus
           /\ run[t].result_source = NoSource

C7_Witness ==
    \E t \in Threads :
        /\ Exited(t)
        /\ run[t].error = "No job location returned"
        /\ run[t].outcome = "raised"

UploadFailed(status) == status = TransportFailure \/ status >= 400

\* C8: perform_scan returns a result only if create_scan_job,
\* get_scan_document and upload_document all succeeded; a failed upload
\* after a successful scan is raised to the caller (a /scan handler answers
\* 500), and upload_document is called at most once and only after the
\* document was retrieved.
C8_ResultOnlyIfAllSucceeded ==
    \A t \in Threads :
        /\ (Exited(t) /\ run[t].outcome = "returned")
           => /\ run[t].job_location \in JobIds
              /\ run[t].document_data \in Docs
              /\ run[t].upload_status = StatusOK
        /\ (Exited(t) /\ run[t].upload_status # NoStatus
                      /\ UploadFailed(run[t].upload_status))
           => /\ run[t].outcome = "raised"
              /\ run[t].error = "Error uploading to Paperless-ngx"
              /\ t \in Handlers => response[t].status = 500
        /\ Exited(t) => run[t].outcome \in {"returned", "raised"}
        /\ TimesCalled(run[t], "upload_document") <= 1
        /\ (run[t].upload_status # NoStatus)
           => /\ run[t].document_data \in Docs
              /\ Called(run[t], "get_scan_document")

C8_Witness ==
    \E t \in Threads :
        /\ Exited(t)
        /\ run[t].upload_status = StatusBadRequest
        /\ run[t].document_data \in Docs
        /\ run[t].outcome = "raised"

\* C9: a perform_scan that returns a result has called create_scan_job,
\* get_scan_document, delete_scan_job and upload_document exactly once each
\* and in this order (the job is deleted before the upload starts), and the
\* source in its result is the InputSource it sent when creating the job.
C9_SuccessfulRunOrder ==
    \A t \in Threads :
        /\ (Exited(t) /\ run[t].outcome = "returned")
           => /\ run[t].ops = <<"create_scan_job", "get_scan_document",
                                "delete_scan_job", "upload_document">>
              /\ run[t].result_source = run[t].input_source
              /\ run[t].result_source # NoSource
        /\ pc[t] = "upload"
           => run[t].ops = <<"create_scan_job", "get_scan_document",
                             "delete_scan_job">>

C9_Witness ==
    \E t \in Handlers :
        /\ Exited(t)
        /\ run[t].outcome = "returned"
        /\ run[t].result_source = "Platen"
        /\ response[t].status = 200

\* ---------------------------------------------------------------- C11
\* C11: delete_scan_job never raises, whatever the scanner answers to the
\* DELETE (success, an error status such as 404 for a job that is already
\* gone, no answer at all): the step of perform_scan that calls it always
\* goes on to the upload, with the activation still running and with the
\* document, the handle and the error slot of its caller untouched.
C11_DeleteNeverRaises ==
    [][\A t \in Threads :
          (pc[t] = "delete" /\ pc'[t] # "delete") =>
              /\ pc'[t] = "upload"
              /\ run'[t].outcome = "running"
              /\ run'[t].error = ""
              /\ run'[t].document_data = run[t].document_data
              /\ run'[t].job_location = run[t].job_location
              /\ run'[t].ops = Append(run[t].ops, "delete_scan_job")]_vars

\* The cleanup has been called and perform_scan is about to upload.
C11_Witness ==
    \E t \in Threads :
        /\ pc[t] = "upload"
        /\ Called(run[t], "delete_scan_job")
        /\ run[t].outcome = "running"
        /\ run[t].document_data \in Docs

\* ---------------------------------------------------------------- C12
\* The capabilities answer names an automatic document feeder.
ReportsAdf(resp) ==
    /\ resp.status # TransportFailure
    /\ resp.status < 400
    /\ resp.text \cap {"Adf", "ADF"} # {}

\* C12: the input source perform_scan puts into the job is the caller's
\* source whenever one is given (any string, and then the capabilities are
\* not queried); without one the capabilities are queried and the source
\* is "Adf" if the answer names an ADF and "Platen" if it does not or if
\* the query fails. The selection never raises.
C12_InputSource ==
    (invoked.fn = "perform_scan" /\ gave.done) =>
        /\ ~gave.raised
        /\ invoked.source # NoSource =>
              (gave.input_source = invoked.source /\ ~gave.queried)
        /\ invoked.source = NoSource =>
              /\ gave.queried
              /\ gave.input_source =
                    IF ReportsAdf(invoked.resp) THEN "Adf" ELSE "Platen"

\* No source given and the capabilities answer spells the feeder "ADF".
C12_Witness ==
    /\ invoked.fn = "perform_scan"
    /\ invoked.source = NoSource
    /\ invoked.resp.status = StatusOK
    /\ invoked.resp.text = {"ADF"}
    /\ gave.done
    /\ gave.input_source = "Adf"

\* ---------------------------------------------------------------- C16
\* The request of an advisory call got no usable answer: no answer at all
\* or an error status.
NoUsableAnswer(resp) == resp.status = TransportFailure \/ resp.status >= 400

\* C16: the advisory calls never raise. On any failure get_scanner_status
\* gives None (and the answer's text otherwise), get_scanner_capabilities
\* gives False and check_adf_loaded gives False; check_adf_loaded gives
\* True only when the status was obtained and holds a loaded-media token.
C16_AdvisoryCallsNeverRaise ==
    gave.done =>
        /\ invoked.fn = "get_scanner_status" =>
              /\ ~gave.raised
              /\ NoUsableAnswer(invoked.resp) => gave.none
              /\ ~NoUsableAnswer(invoked.resp) =>
                    (~gave.none /\ gave.text = invoked.resp.text)
        /\ invoked.fn = "get_scanner_capabilities" =>
              /\ ~gave.raised
              /\ NoUsableAnswer(invoked.resp) => ~gave.value
        /\ invoked.fn = "check_adf_loaded" =>
              /\ ~gave.raised
              /\ NoUsableAnswer(invoked.resp) => ~gave.value
              /\ gave.value =>
                    /\ ~NoUsableAnswer(invoked.resp)
                    /\ invoked.resp.text \cap {"AdfLoaded", "MediaLoaded"} # {}

\* The status request failed although the feeder is loaded, and
\* check_adf_loaded answered False.
C16_Witness ==
    /\ invoked.fn = "check_adf_loaded"
    /\ invoked.resp.status = TransportFailure
    /\ gave.done
    /\ ~gave.raised
    /\ ~gave.value

\* ---------------------------------------------------------------- C13
\* C13: AUTO_SCAN_ENABLED is false at startup; a completed enable leaves it
\* true and a completed disable leaves it false, whatever it was before
\* (idempotent); no step of any other operation (manual scan, supervisor,
\* clock, status) changes it, so it always holds the value of the latest
\* completed toggle; and every answer of /autoscan/status carries exactly
\* the value the flag has when the answer is made, without changing it.
C13_FlagFollowsToggles ==
    /\ AUTO_SCAN_ENABLED = FALSE
    /\ [][/\ ~(AUTO_SCAN_ENABLED' = FALSE /\ enable_autoscan)
          /\ ~(AUTO_SCAN_ENABLED' = TRUE /\ disable_autoscan)
          /\ AUTO_SCAN_ENABLED' # AUTO_SCAN_ENABLED =>
                (enable_autoscan \/ disable_autoscan)
          /\ \A h \in Handlers :
                pc'[h] = "answered" =>
                    /\ response'[h].status = 200
                    /\ pc[h] # "answered" =>
                          /\ response'[h].enabled = AUTO_SCAN_ENABLED
                          /\ AUTO_SCAN_ENABLED' = AUTO_SCAN_ENABLED
                    /\ pc[h] = "answered" => response'[h] = response[h]]_vars

\* /autoscan/status answered "enabled" while a scan of the supervisor was
\* in progress, and auto-scan has been disabled since.
C13_Witness ==
    /\ ~AUTO_SCAN_ENABLED
    /\ pc[Supervisor] = "fetch"
    /\ \E h \in Handlers :
          /\ pc[h] = "answered"
          /\ response[h].status = 200
          /\ response[h].enabled

\* ---------------------------------------------------------------- C14
\* The stages of one perform_scan activation.
ScanStages == {"capabilities", "create", "fetch", "delete", "upload"}

\* C14: a tick of the supervisor that reads the flag false goes straight
\* back to time.sleep(2): it sends no status request and calls no
\* perform_scan. The supervisor comes to its status request only from a
\* tick that read the flag true, and to perform_scan only from that status
\* request; so after a disable with no later enable every tick that follows
\* triggers nothing.
C14_NoPollWhileDisabled ==
    [][/\ (pc[Supervisor] = "sleep" /\ sleep_left = 0 /\ ~AUTO_SCAN_ENABLED
           /\ <<pc[Supervisor], run[Supervisor], sleep_left>>'
                  # <<pc[Supervisor], run[Supervisor], sleep_left>>) =>
              /\ pc'[Supervisor] = "sleep"
              /\ sleep_left' = TickSeconds
              /\ run'[Supervisor] = RunIdle
              /\ UNCHANGED <<openJobs, current_time, last_scan_time>>
       /\ (pc'[Supervisor] = "poll" /\ pc[Supervisor] # "poll") =>
              (pc[Supervisor] = "sleep" /\ sleep_left = 0 /\ AUTO_SCAN_ENABLED)
       /\ (pc'[Supervisor] \in ScanStages /\ pc[Supervisor] \notin ScanStages) =>
              pc[Supervisor] = "poll"]_vars

\* A tick found the flag false (it never was true: nothing was ever
\* detected) and the supervisor is in its next sleep.
C14_Witness ==
    /\ ~AUTO_SCAN_ENABLED
    /\ pc[Supervisor] = "sleep"
    /\ sleep_left = TickSeconds
    /\ now >= StartTime + TickSeconds
    /\ current_time = 0

\* ---------------------------------------------------------------- C15
\* The step from stage `from` of the activation r to the activation q at
\* stage `to` is the one perform_scan takes on some answer of the device:
\* the next operation of the fixed order, or the exception of the current
\* one.
StageStep(from, r, to, q) ==
    \/ /\ from = "create" /\ to = "fetch"
       /\ q.outcome = "running" /\ q.job_location \in JobIds
    \/ /\ from = "create" /\ to = "exit" /\ q.outcome = "raised"
       /\ q.error \in {"Error creating scan job", "No job location returned"}
    \/ /\ from = "fetch" /\ to = "delete"
       /\ q.outcome = "running" /\ q.document_data \in Docs
    \/ /\ from = "fetch" /\ to = "exit" /\ q.outcome = "raised"
       /\ q.error \in {"timed_out", "retrieval_error"}
    \/ /\ from = "delete" /\ to = "upload" /\ q.outcome = "running"
    \/ /\ from = "upload" /\ to = "exit" /\ q.upload_status = StatusOK
       /\ q.outcome = "returned" /\ q.result_source = "Adf"
    \/ /\ from = "upload" /\ to = "exit" /\ q.upload_status # StatusOK
       /\ q.outcome = "raised"
       /\ q.error = "Error uploading to Paperless-ngx"

\* C15: a perform_scan the supervisor has started runs to its end whatever
\* happens to the flag meanwhile. A toggle changes nothing of the scan in
\* flight (its stage, its locals, the open jobs); every step of that scan,
\* with the flag true or false, is the next operation of the fixed order
\* or the exception of the current one and leaves the flag alone; and at
\* its end the supervisor goes back to its sleep. Only the next tick reads
\* the flag again.
C15_InFlightScanIgnoresToggles ==
    [][/\ AUTO_SCAN_ENABLED' # AUTO_SCAN_ENABLED =>
              /\ enable_autoscan \/ disable_autoscan
              /\ UNCHANGED <<pc, run, openJobs, current_time, last_scan_time,
                             sleep_left>>
       /\ (pc[Supervisor] \in ScanStages /\ pc'[Supervisor] # pc[Supervisor]) =>
              /\ StageStep(pc[Supervisor], run[Supervisor],
                           pc'[Supervisor], run'[Supervisor])
              /\ AUTO_SCAN_ENABLED' = AUTO_SCAN_ENABLED
       /\ (pc[Supervisor] \in ScanStages /\ pc'[Supervisor] = pc[Supervisor]) =>
              run'[Supervisor] = run[Supervisor]
       /\ (pc[Supervisor] = "exit" /\ pc'[Supervisor] # "exit") =>
              pc'[Supervisor] = "sleep"]_vars

\* The supervisor's scan has returned its result although auto-scan was
\* disabled while it ran.
C15_Witness ==
    /\ ~AUTO_SCAN_ENABLED
    /\ pc[Supervisor] = "exit"
    /\ run[Supervisor].outcome = "returned"
    /\ run[Supervisor].ops = <<"create_scan_job", "get_scan_document",
                               "delete_scan_job", "upload_document">>

\* ---------------------------------------------------------------- C17
\* C17: a /scan request is answered when its perform_scan is over and not
\* before: with 200, success = true and the source used exactly when
\* perform_scan returned, and with 500, success = false and the message of
\* the exception whenever it raised, whichever operation failed. Nothing
\* the supervisor does, a failed automatic scan included, gives or changes
\* an answer to any client.
C17_ScanAnswers ==
    [][/\ \A h \in Handlers :
            /\ response'[h] # response[h] =>
                  \/ pc[h] \in ScanStages /\ pc'[h] = "exit"
                  \/ pc[h] = "idle" /\ pc'[h] = "answered"
            /\ (pc[h] \in ScanStages /\ pc'[h] = "exit") =>
                  /\ run'[h].outcome \in {"returned", "raised"}
                  /\ response'[h].status \in {200, 500}
                  /\ response'[h].status = 200 <=> run'[h].outcome = "returned"
                  /\ response'[h].success <=> run'[h].outcome = "returned"
                  /\ run'[h].outcome = "returned" =>
                        response'[h].source = run'[h].result_source
                  /\ run'[h].outcome = "raised" =>
                        /\ response'[h].error = run'[h].error
                        /\ response'[h].error # ""
       /\ <<pc[Supervisor], run[Supervisor]>>' # <<pc[Supervisor], run[Supervisor]>> =>
            response' = response]_vars

\* A manual scan that timed out was answered with 500 and the message,
\* while a failed automatic scan has left no answer anywhere.
C17_Witness ==
    /\ pc[Supervisor] = "exit"
    /\ run[Supervisor].outcome = "raised"
    /\ \E h \in Handlers :
          /\ pc[h] = "exit"
          /\ run[h].error = "timed_out"
          /\ response[h].status = 500
          /\ ~response[h].success
          /\ response[h].error = "timed_out"

\* ---------------------------------------------------------------- C18
\* The position of a thread in the fixed order of perform_scan.
Rank(stage) ==
    CASE stage = "capabilities" -> 1
      [] stage = "create" -> 2
      [] stage = "fetch" -> 3
      [] stage = "delete" -> 4
      [] stage = "upload" -> 5
      [] stage = "exit" -> 6
      [] OTHER -> 0

\* The polling loop with its default budget ends for every answer
\* sequence, after at most max_retries requests and one sleep fewer.
DefaultFetchBounded ==
    \A f \in DefaultFetchRuns :
        /\ f.outcome \in {"content", "timed_out", "retrieval_error"}
        /\ f.requests <= DefaultMaxRetries
        /\ f.sleeps <= DefaultMaxRetries - 1
        /\ f.slept <= (DefaultMaxRetries - 1) * DefaultRetryDelay

\* C18: every invocation of perform_scan terminates when every network
\* call returns. Each of its steps moves it strictly forward in the order
\* capabilities, create, fetch, delete, upload, exit, so it makes at most
\* one capabilities query, one job creation, one delete and one upload,
\* and its one polling loop ends after at most max_retries NextDocument
\* requests.
C18_PerformScanTerminates ==
    [][/\ DefaultFetchBounded
       /\ \A t \in Threads :
            (pc[t] \in ScanStages /\ <<pc[t], run[t]>>' # <<pc[t], run[t]>>) =>
                /\ Rank(pc'[t]) > Rank(pc[t])
                /\ Len(run'[t].ops) <= Len(run[t].ops) + 1
                /\ \A op \in {"create_scan_job", "get_scan_document",
                              "delete_scan_job", "upload_document"} :
                      TimesCalled(run'[t], op) <= 1]_vars

\* A perform_scan that ended because the scanner answered 503 to the
\* whole polling budget.
C18_Witness ==
    \E h \in Handlers :
        /\ pc[h] = "exit"
        /\ run[h].outcome = "raised"
        /\ run[h].error = "timed_out"
        /\ run[h].ops = <<"create_scan_job", "get_scan_document">>
        /\ response[h].status = 500

\* ---------------------------------------------------------------- C19
\* C19: last_scan_time is written only when a perform_scan called by the
\* supervisor has returned its result, and then with the time sampled at
\* the detection, before that scan began (current_time, which no step of
\* the scan changes). A supervisor scan that raised leaves it as it was,
\* and so does every other step: a manual /scan, a toggle, the clock, a
\* tick that detects nothing.
C19_TimestampOnlyAfterSuccess ==
    [][/\ last_scan_time' # last_scan_time =>
              /\ pc[Supervisor] = "exit"
              /\ run[Supervisor].outcome = "returned"
              /\ pc'[Supervisor] = "sleep"
       /\ (pc[Supervisor] = "exit" /\ pc'[Supervisor] # "exit") =>
              last_scan_time' = IF run[Supervisor].outcome = "returned"
                                THEN current_time ELSE last_scan_time
       /\ (pc[Supervisor] = "poll" /\ pc'[Supervisor] \in ScanStages) =>
              (current_time' = now /\ now' = now)
       /\ pc[Supervisor] \in ScanStages \cup {"exit"} =>
              current_time' = current_time]_vars

\* The supervisor's scan took time and returned: last_scan_time is the
\* time of the detection, which is earlier than the time of the return.
C19_Witness ==
    /\ pc[Supervisor] = "sleep"
    /\ sleep_left = TickSeconds
    /\ last_scan_time = current_time
    /\ last_scan_time >= StartTime + TickSeconds
    /\ last_scan_time < now

\* ---------------------------------------------------------------- C20
\* C20: while no manual /scan request has been made, so that only the
\* supervisor calls perform_scan, at most one scan job is open (created
\* and not yet handed to delete_scan_job) at any time.
C20_SupervisorAloneOneOpenJob ==
    (\A h \in Handlers : pc[h] = "idle") => Cardinality(openJobs) <= 1

====
